---- MODULE Spec2Model ----
(***************************************************************************)
(* typed-html, macros/src/parser.rs: the token combinators (unit, punct,   *)
(* ident, ident_match, literal, group), the composite grammars (type_spec, *)
(* dotted_ident, html_ident) and the translation of a pom error into a     *)
(* proc_macro diagnostic (parse_error).                                    *)
(*                                                                         *)
(* Indices are the code's: a start index and an error position count from  *)
(* 0, so the token at index i is input[i + 1] here.                        *)
(***************************************************************************)
EXTENDS Integers, Sequences, FiniteSets, TLC

VARIABLES input, call, result, diag

vars == <<input, call, result, diag>>

(***************************************************************************)
(* Bounds of the instances.                                                *)
(***************************************************************************)
MaxLen == 4
MaxTypeLen == 4
MaxDottedLen == 6
MaxHtmlLen == 5
MaxErrLen == 2
MaxErrDepth == 2
NumFiles == 2

(***************************************************************************)
(* Option<T>: None is the empty sequence, Some(x) the one-element one.     *)
(***************************************************************************)
None == <<>>

Some(x) == <<x>>

Unit == <<>>

Min2(a, b) == IF a <= b THEN a ELSE b

Max2(a, b) == IF a >= b THEN a ELSE b

(***************************************************************************)
(* proc_macro's token model.  A span is a range of one source file.        *)
(* Span::join gives None for spans of different files, and otherwise the   *)
(* span from the smaller start to the larger end.                          *)
(***************************************************************************)
MkSpan(f, lo, hi) == [file |-> f, lo |-> lo, hi |-> hi]

CallSite == MkSpan(0, 0, 0)

Span_join(a, b) ==
    IF a.file # b.file THEN None
    ELSE Some(MkSpan(a.file, Min2(a.lo, b.lo), Max2(a.hi, b.hi)))

MkToken(kind, text, inner, span) ==
    [kind |-> kind, text |-> text, inner |-> inner, span |-> span]

Ident_new(name, span) == MkToken("Ident", name, <<>>, span)

Group_new(delimiter, stream) == MkToken("Group", delimiter, stream, CallSite)

\* input.get(start)
Get(in, start) == IF start < Len(in) THEN Some(in[start + 1]) ELSE None

(***************************************************************************)
(* pom: errors and parse results.  A message is the sequence of the pieces *)
(* format! concatenates.                                                   *)
(***************************************************************************)
MkError(type, message, position, inner) ==
    [type |-> type, message |-> message, position |-> position, inner |-> inner]

Incomplete == MkError("Incomplete", <<>>, 0, None)

Mismatch(message, position) == MkError("Mismatch", message, position, None)

Conversion(message, position) == MkError("Conversion", message, position, None)

Expect(message, position, inner) == MkError("Expect", message, position, Some(inner))

Custom(message, position, inner) == MkError("Custom", message, position, inner)

NoError == MkError("None", <<>>, 0, None)

Ok(value, pos) == [kind |-> "Ok", value |-> value, pos |-> pos, err |-> NoError]

Err(e) == [kind |-> "Err", value |-> Unit, pos |-> 0, err |-> e]

\* a panic unwinds through every combinator
Panic == [kind |-> "Panic", value |-> Unit, pos |-> 0, err |-> NoError]

NoResult == [kind |-> "None", value |-> Unit, pos |-> 0, err |-> NoError]

(***************************************************************************)
(* The closures of the primitive combinators.                              *)
(***************************************************************************)
unit_closure(value, in, start) == Ok(value, start)

\* format!("{:?}", c) of a char: the char between single quotes
DebugChar(c) == <<"'", c, "'">>

\* punct reporting the end of the input the way pom's own sym does
punct_Incomplete(c, in, start) ==
    LET t == Get(in, start) IN
    IF t = None THEN Err(Incomplete)
    ELSE IF t[1].kind = "Punct" /\ t[1].text = c
    THEN Ok(t[1], start + 1)
    ELSE Err(Mismatch(<<"expected ">> \o DebugChar(c), start))

punct_closure(c, in, start) ==
    LET t == Get(in, start) IN
    IF t # None /\ t[1].kind = "Punct" /\ t[1].text = c
    THEN Ok(t[1], start + 1)
    ELSE Err(Mismatch(<<"expected ">> \o DebugChar(c), start))

ident_closure(in, start) ==
    LET t == Get(in, start) IN
    IF t # None /\ t[1].kind = "Ident"
    THEN Ok(t[1], start + 1)
    ELSE Err(Mismatch(<<"expected identifier">>, start))

\* a comparison that ignores case, for the identifiers of the instances
Lower(s) == IF s = "A" THEN "a" ELSE s

ident_match_IgnoreCase(name, in, start) ==
    LET t == Get(in, start) IN
    IF t # None /\ t[1].kind = "Ident"
    THEN IF Lower(t[1].text) = Lower(name)
         THEN Ok(Unit, start + 1)
         ELSE Err(Mismatch(<<"expected '</", name, ">', found '</", t[1].text, ">'">>,
                           start))
    ELSE Err(Mismatch(<<"expected identifier">>, start))

ident_match_closure(name, in, start) ==
    LET t == Get(in, start) IN
    IF t # None /\ t[1].kind = "Ident"
    THEN IF t[1].text = name
         THEN Ok(Unit, start + 1)
         ELSE Err(Mismatch(<<"expected '</", name, ">', found '</", t[1].text, ">'">>,
                           start))
    ELSE Err(Mismatch(<<"expected identifier">>, start))

literal_closure(in, start) ==
    LET t == Get(in, start) IN
    IF t # None /\ t[1].kind = "Literal"
    THEN Ok(t[1], start + 1)
    ELSE Err(Mismatch(<<"expected literal">>, start))

group_closure(in, start) ==
    LET t == Get(in, start) IN
    IF t # None /\ t[1].kind = "Group"
    THEN Ok(t[1], start + 1)
    ELSE Err(Mismatch(<<"expected group">>, start))

(***************************************************************************)
(* Parsers as values: what the constructor functions return.               *)
(***************************************************************************)
Comb(op, arg) == [op |-> op, arg |-> arg]

unit(value) == Comb("unit", value)

punct(c) == Comb("punct", c)

ident == Comb("ident", Unit)

ident_match(name) == Comb("ident_match", name)

literal == Comb("literal", Unit)

group == Comb("group", Unit)

\* pom's operators: p + q, p * q, p | q, p.repeat(range), p.collect(),
\* p.discard(), p.map(f)
Unbounded == 0 - 1

Seq2(l, r) == [op |-> "seq", l |-> l, r |-> r]

Right(l, r) == [op |-> "right", l |-> l, r |-> r]

Alt(l, r) == [op |-> "alt", l |-> l, r |-> r]

Repeat(p, min, max) == [op |-> "repeat", p |-> p, min |-> min, max |-> max]

Collect(p) == [op |-> "collect", p |-> p]

Discard(p) == [op |-> "discard", p |-> p]

Map(p, f) == [op |-> "map", p |-> p, f |-> f]

(***************************************************************************)
(* The closures the composite grammars map over what they collected.       *)
(***************************************************************************)
RECURSIVE stream_extend(_, _, _)
stream_extend(stream, tokens, i) ==
    IF i > Len(tokens) THEN stream
    ELSE stream_extend(Append(stream, tokens[i]), tokens, i + 1)

to_stream(tokens) == stream_extend(<<>>, tokens, 1)

dotted_ident_map(tokens) ==
    IF Len(tokens) = 1 THEN tokens[1]
    ELSE Group_new("Brace", to_stream(tokens))

\* one step of html_ident's fold; acc is (span, name)
html_ident_step(acc, token) ==
    [span |-> IF acc.span = None THEN Some(token.span)
              ELSE Span_join(acc.span[1], token.span),
     name |-> IF token.kind = "Ident" THEN acc.name \o token.text
              ELSE acc.name \o "_"]

RECURSIVE html_ident_fold(_, _, _)
html_ident_fold(acc, stream, i) ==
    IF i > Len(stream) THEN acc
    ELSE html_ident_fold(html_ident_step(acc, stream[i]), stream, i + 1)

\* what a mapped closure does: it returns a value or it panics
Returns(v) == [panics |-> FALSE, value |-> v]

Panics == [panics |-> TRUE, value |-> Unit]

\* span.unwrap() panics on None
html_ident_map(stream) ==
    LET acc == html_ident_fold([span |-> None, name |-> ""], stream, 1) IN
    IF acc.span = None THEN Panics ELSE Returns(Ident_new(acc.name, acc.span[1]))

\* p.map(f): f is one of the closures of this file
Apply(f, v) ==
    CASE f = "TokenTree" -> Returns(v)
      [] f = "to_stream" -> Returns(to_stream(v))
      [] f = "dotted_ident_map" -> Returns(dotted_ident_map(v))
      [] f = "html_ident_map" -> html_ident_map(v)

(***************************************************************************)
(* Running a parser on (input, start): the primitives' closures and pom's  *)
(* operators.  Sequencing stops at the first failure, alternation tries    *)
(* the right parser at the same start when the left one fails, repetition  *)
(* is greedy and fails with a Mismatch at its start below its minimum,     *)
(* collect gives the consumed slice of the input.                          *)
(***************************************************************************)
RECURSIVE Run(_, _, _), RepeatLoop(_, _, _, _, _)

RepeatEnd(p, start, pos, items) ==
    IF Len(items) < p.min
    THEN Err(Mismatch(<<"expect repeat at least ", ToString(p.min),
                        " times, found ", ToString(Len(items)), " times">>, start))
    ELSE Ok(items, pos)

RepeatLoop(p, in, start, pos, items) ==
    IF p.max # Unbounded /\ Len(items) >= p.max
    THEN RepeatEnd(p, start, pos, items)
    ELSE LET r == Run(p.p, in, pos) IN
         IF r.kind = "Ok" THEN RepeatLoop(p, in, start, r.pos, Append(items, r.value))
         ELSE IF r.kind = "Panic" THEN r
         ELSE RepeatEnd(p, start, pos, items)

Run(p, in, start) ==
    CASE p.op = "unit" -> unit_closure(p.arg, in, start)
      [] p.op = "punct" -> punct_closure(p.arg, in, start)
      [] p.op = "ident" -> ident_closure(in, start)
      [] p.op = "ident_match" -> ident_match_closure(p.arg, in, start)
      [] p.op = "literal" -> literal_closure(in, start)
      [] p.op = "group" -> group_closure(in, start)
      [] p.op \in {"seq", "right"} ->
            LET l == Run(p.l, in, start) IN
            IF l.kind # "Ok" THEN l
            ELSE LET r == Run(p.r, in, l.pos) IN
                 IF r.kind # "Ok" THEN r
                 ELSE IF p.op = "seq" THEN Ok(<<l.value, r.value>>, r.pos)
                 ELSE r
      [] p.op = "alt" ->
            LET l == Run(p.l, in, start) IN
            IF l.kind = "Err" THEN Run(p.r, in, start) ELSE l
      [] p.op = "repeat" -> RepeatLoop(p, in, start, start, <<>>)
      [] p.op = "collect" ->
            LET r == Run(p.p, in, start) IN
            IF r.kind # "Ok" THEN r ELSE Ok(SubSeq(in, start + 1, r.pos), r.pos)
      [] p.op = "discard" ->
            LET r == Run(p.p, in, start) IN
            IF r.kind # "Ok" THEN r ELSE Ok(Unit, r.pos)
      [] p.op = "map" ->
            LET r == Run(p.p, in, start) IN
            IF r.kind # "Ok" THEN r
            ELSE LET v == Apply(p.f, r.value) IN
                 IF v.panics THEN Panic ELSE Ok(v.value, r.pos)

(***************************************************************************)
(* The composite grammars.                                                 *)
(***************************************************************************)
\* valid without its '&' alternative
valid_NoAmpersand ==
    Alt(Alt(Alt(Alt(Map(ident, "TokenTree"),
                    Map(punct(":"), "TokenTree")),
                Map(punct("<"), "TokenTree")),
            Map(punct(">"), "TokenTree")),
        Map(punct("'"), "TokenTree"))

valid ==
    Alt(Alt(Alt(Alt(Alt(Map(ident, "TokenTree"),
                        Map(punct(":"), "TokenTree")),
                    Map(punct("<"), "TokenTree")),
                Map(punct(">"), "TokenTree")),
            Map(punct("&"), "TokenTree")),
        Map(punct("'"), "TokenTree"))

\* type_spec with repeat(0..) for repeat(1..)
type_spec_MayBeEmpty == Map(Collect(Repeat(valid, 0, Unbounded)), "to_stream")

type_spec == Map(Collect(Repeat(valid, 1, Unbounded)), "to_stream")

\* dotted_ident with a single ':' for its second separator
dotted_ident_SingleColon ==
    Map(Collect(Seq2(ident,
                     Repeat(Alt(Discard(Seq2(punct("."), ident)),
                                Discard(Seq2(Repeat(punct(":"), 1, 1), ident))),
                            0, Unbounded))),
        "dotted_ident_map")

dotted_ident ==
    Map(Collect(Seq2(ident,
                     Repeat(Alt(Discard(Seq2(punct("."), ident)),
                                Discard(Seq2(Repeat(punct(":"), 2, 2), ident))),
                            0, Unbounded))),
        "dotted_ident_map")

html_ident ==
    Map(Collect(Right(ident, Repeat(Right(punct("-"), ident), 0, Unbounded))),
        "html_ident_map")

(***************************************************************************)
(* parse_error: a pom error as a proc_macro diagnostic.  input[position]   *)
(* panics when position is no index of the slice.                          *)
(***************************************************************************)
MkDiag(level, message, spans, children) ==
    [kind |-> "Diag", level |-> level, message |-> message,
     spans |-> spans, children |-> children]

DiagPanic == [kind |-> "Panic", level |-> "", message |-> <<>>,
              spans |-> <<>>, children |-> <<>>]

NoDiag == [kind |-> "None", level |-> "", message |-> <<>>,
           spans |-> <<>>, children |-> <<>>]

Diagnostic_new(level, message) == MkDiag(level, message, <<>>, <<>>)

Diagnostic_spanned(spans, level, message) == MkDiag(level, message, spans, <<>>)

\* diag.span_error(spans, message): one more child of level Error
span_error(d, spans, message) ==
    [d EXCEPT !.children = Append(@, Diagnostic_spanned(spans, "Error", message))]

\* Diagnostic::spanned(input[*position].span(), Level::Error, message)
spanned_at(in, e) ==
    IF e.position < Len(in)
    THEN Diagnostic_spanned(<<in[e.position + 1].span>>, "Error", e.message)
    ELSE DiagPanic

\* the Incomplete arm at another level
parse_error_Incomplete_Warning ==
    Diagnostic_new("Warning", <<"unexpected end of macro!">>)

parse_error_Incomplete == Diagnostic_new("Error", <<"unexpected end of macro!">>)

RECURSIVE parse_error(_, _)

\* the wrapping arms attaching the child at the outer diagnostic's own spans
parse_error_inner_OuterSpans(in, e) ==
    LET d == spanned_at(in, e) IN
    IF d.kind = "Panic" THEN DiagPanic
    ELSE LET child == parse_error(in, e.inner[1]) IN
         IF child.kind = "Panic" THEN DiagPanic
         ELSE span_error(d, d.spans, child.message)

\* the Expect arm, and the Custom arm with an inner error
parse_error_inner(in, e) ==
    LET d == spanned_at(in, e) IN
    IF d.kind = "Panic" THEN DiagPanic
    ELSE LET child == parse_error(in, e.inner[1]) IN
         IF child.kind = "Panic" THEN DiagPanic
         ELSE span_error(d, child.spans, child.message)

parse_error(in, e) ==
    CASE e.type = "Incomplete" -> parse_error_Incomplete
      [] e.type \in {"Mismatch", "Conversion"} -> spanned_at(in, e)
      [] e.type = "Expect" -> parse_error_inner(in, e)
      [] e.type = "Custom" ->
            IF e.inner # None THEN parse_error_inner(in, e) ELSE spanned_at(in, e)


(***************************************************************************)
(* The inputs of the instances: token slices over a small alphabet of      *)
(* token contents.  The token at index i spans the source range            *)
(* [i, i + 1) of its file.                                                 *)
(***************************************************************************)
Shape(kind, text) == [kind |-> kind, text |-> text]

Idents(names) == {Shape("Ident", n) : n \in names}

Puncts(chars) == {Shape("Punct", c) : c \in chars}

LiteralShape == Shape("Literal", "1")

GroupShape == Shape("Group", "Paren")

MkInput(shapes, files) ==
    [i \in DOMAIN shapes |->
        MkToken(shapes[i].kind, shapes[i].text, <<>>, MkSpan(files[i], i - 1, i))]

\* every token of one file
OneFile(shapes) == [i \in DOMAIN shapes |-> 1]

\* the slices of up to n tokens over an alphabet, all of one file
IsInput(in, alphabet, n) ==
    \E k \in 0..n : \E shapes \in [1..k -> alphabet] :
        in = MkInput(shapes, OneFile(shapes))

\* tokens of up to NumFiles files (a macro_rules expansion mixes the files
\* of its definition and of its call), the first one of file 1
IsInputOfFiles(in, alphabet, n) ==
    \E k \in 0..n : \E shapes \in [1..k -> alphabet], files \in [1..k -> 1..NumFiles] :
        /\ IF k = 0 THEN TRUE ELSE files[1] = 1
        /\ in = MkInput(shapes, files)

MainAlphabet ==
    Idents({"a", "A"}) \cup Puncts({"-", ".", ":", "<"}) \cup {LiteralShape, GroupShape}

TypeAlphabet ==
    Idents({"a", "b"}) \cup Puncts({":", "<", ">", "&", "'", "."}) \cup {LiteralShape}

DottedAlphabet == Idents({"a", "b"}) \cup Puncts({".", ":"}) \cup {LiteralShape}

HtmlAlphabet == Idents({"a", "b", "c"}) \cup Puncts({"-", "."})

PunctArgs == {"-", ".", ":", "<", ","}

NameArgs == {"a", "A", "b"}

Messages == {<<"outer">>, <<"inner">>}

\* The errors a caller's grammar can hand to parse_error: a chain of wrapping
\* errors (Expect, Custom with an inner error) that ends in an error with no
\* inner one.  A position is an index of the slice or its length.
LeafErrors(P) ==
    {Incomplete}
    \cup {Mismatch(m, p) : m \in Messages, p \in P}
    \cup {Conversion(m, p) : m \in Messages, p \in P}
    \cup {Custom(m, p, None) : m \in Messages, p \in P}

Wrappers(P) == {"Expect", "Custom"} \X Messages \X P

RECURSIVE Chain(_, _, _)
Chain(wraps, i, leaf) ==
    IF i > Len(wraps) THEN leaf
    ELSE MkError(wraps[i][1], wraps[i][2], wraps[i][3], Some(Chain(wraps, i + 1, leaf)))

(***************************************************************************)
(* The state machine: a caller holds a token slice, runs a parser of this  *)
(* file on it from a start index, and hands a failure to parse_error.      *)
(***************************************************************************)
MkCall(fn, arg, start) == [fn |-> fn, arg |-> arg, start |-> start]

NoCall == MkCall("none", "", 0)

Fresh == call = NoCall /\ result = NoResult /\ diag = NoDiag

\* One parse attempt per slice: a parser of this file is run on (input, start),
\* for a start index up to one past the end of the slice.
Starts == 0..(Len(input) + 1)

CallUnit ==
    /\ Fresh
    /\ \E start \in Starts :
        /\ call' = MkCall("unit", "v", start)
        /\ result' = Run(unit("v"), input, start)
    /\ diag' = NoDiag
    /\ UNCHANGED input

CallPunct ==
    /\ Fresh
    /\ \E c \in PunctArgs : \E start \in Starts :
        /\ call' = MkCall("punct", c, start)
        /\ result' = Run(punct(c), input, start)
    /\ diag' = NoDiag
    /\ UNCHANGED input

CallIdent ==
    /\ Fresh
    /\ \E start \in Starts :
        /\ call' = MkCall("ident", "", start)
        /\ result' = Run(ident, input, start)
    /\ diag' = NoDiag
    /\ UNCHANGED input

CallIdentMatch ==
    /\ Fresh
    /\ \E name \in NameArgs : \E start \in Starts :
        /\ call' = MkCall("ident_match", name, start)
        /\ result' = Run(ident_match(name), input, start)
    /\ diag' = NoDiag
    /\ UNCHANGED input

CallLiteral ==
    /\ Fresh
    /\ \E start \in Starts :
        /\ call' = MkCall("literal", "", start)
        /\ result' = Run(literal, input, start)
    /\ diag' = NoDiag
    /\ UNCHANGED input

CallGroup ==
    /\ Fresh
    /\ \E start \in Starts :
        /\ call' = MkCall("group", "", start)
        /\ result' = Run(group, input, start)
    /\ diag' = NoDiag
    /\ UNCHANGED input

CallTypeSpec ==
    /\ Fresh
    /\ \E start \in Starts :
        /\ call' = MkCall("type_spec", "", start)
        /\ result' = Run(type_spec, input, start)
    /\ diag' = NoDiag
    /\ UNCHANGED input

CallDottedIdent ==
    /\ Fresh
    /\ \E start \in Starts :
        /\ call' = MkCall("dotted_ident", "", start)
        /\ result' = Run(dotted_ident, input, start)
    /\ diag' = NoDiag
    /\ UNCHANGED input

CallHtmlIdent ==
    /\ Fresh
    /\ \E start \in Starts :
        /\ call' = MkCall("html_ident", "", start)
        /\ result' = Run(html_ident, input, start)
    /\ diag' = NoDiag
    /\ UNCHANGED input

\* the caller reports a failure: parse_error(input, &error)
Report ==
    /\ result.kind = "Err"
    /\ diag = NoDiag
    /\ diag' = parse_error(input, result.err)
    /\ UNCHANGED <<input, call, result>>

Init == IsInput(input, MainAlphabet, MaxLen) /\ Fresh

Next ==
    \/ CallUnit
    \/ CallPunct
    \/ CallIdent
    \/ CallIdentMatch
    \/ CallLiteral
    \/ CallGroup
    \/ CallTypeSpec
    \/ CallDottedIdent
    \/ CallHtmlIdent
    \/ Report

Spec == Init /\ [][Next]_vars

InitType == IsInput(input, TypeAlphabet, MaxTypeLen) /\ Fresh

NextType == CallTypeSpec \/ Report

SpecType == InitType /\ [][NextType]_vars

InitDotted == IsInput(input, DottedAlphabet, MaxDottedLen) /\ Fresh

NextDotted == CallDottedIdent \/ Report

SpecDotted == InitDotted /\ [][NextDotted]_vars

InitHtml == IsInputOfFiles(input, HtmlAlphabet, MaxHtmlLen) /\ Fresh

NextHtml == CallHtmlIdent \/ Report

SpecHtml == InitHtml /\ [][NextHtml]_vars

\* a failure of the caller's own grammar (pom's expect, convert, custom)
InitTranslate ==
    /\ IsInput(input, Idents({"a"}), MaxErrLen)
    /\ call = MkCall("caller", "", 0)
    /\ \E k \in 0..MaxErrDepth :
           \E wraps \in [1..k -> Wrappers(0..Len(input))],
              leaf \in LeafErrors(0..Len(input)) :
               result = Err(Chain(wraps, 1, leaf))
    /\ diag = NoDiag

NextTranslate == Report

SpecTranslate == InitTranslate /\ [][NextTranslate]_vars


(***************************************************************************)
(* What the properties below speak of.                                     *)
(***************************************************************************)
Primitives == {"punct", "ident", "ident_match", "literal", "group"}

Composites == {"type_spec", "dotted_ident", "html_ident"}

IsIdentAt(i) == i >= 0 /\ i < Len(input) /\ input[i + 1].kind = "Ident"

IsPunctAt(i, c) ==
    i >= 0 /\ i < Len(input) /\ input[i + 1].kind = "Punct" /\ input[i + 1].text = c

\* the token at the start index satisfies the called primitive's predicate
Satisfied ==
    /\ call.start < Len(input)
    /\ LET t == input[call.start + 1] IN
       CASE call.fn = "punct" -> t.kind = "Punct" /\ t.text = call.arg
         [] call.fn = "ident" -> t.kind = "Ident"
         [] call.fn = "ident_match" -> t.kind = "Ident" /\ t.text = call.arg
         [] call.fn = "literal" -> t.kind = "Literal"
         [] call.fn = "group" -> t.kind = "Group"
         [] OTHER -> FALSE

Contains(message, piece) == \E i \in 1..Len(message) : message[i] = piece

Maximum(S) == CHOOSE x \in S : \A y \in S : y <= x

\* C1: a primitive whose predicate the token at the start index does not
\* satisfy, a start index at or past the end included, fails with a Mismatch
\* whose position is the start index: never Incomplete, never another position.
C1_MismatchAtStart ==
    (call.fn \in Primitives /\ ~Satisfied) =>
        /\ result.kind = "Err"
        /\ result.err.type = "Mismatch"
        /\ result.err.position = call.start

C1_Witness ==
    /\ call.fn = "punct"
    /\ Len(input) > 0
    /\ call.start >= Len(input)
    /\ result.kind = "Err"
    /\ result.err.position = call.start

\* C2: every failure of a primitive or a composite grammar started at an
\* index in [0, len(tokens)] can be translated: its position is an index of
\* the slice and parse_error produces a diagnostic.
C2_EveryFailureTranslates ==
    (/\ call.fn \in Primitives \cup Composites
     /\ call.start <= Len(input)
     /\ diag # NoDiag) =>
        /\ result.err.position < Len(input)
        /\ diag.kind = "Diag"

\* C8: ident_match(name) succeeds, with unit and start + 1, exactly on an
\* Identifier whose text is name (case matters); on another Identifier its
\* message holds both name and the found text; on another token or at the end
\* of the input the message is "expected identifier".
C8_IdentMatch ==
    call.fn = "ident_match" =>
        LET t == Get(input, call.start) IN
        /\ result.kind \in {"Ok", "Err"}
        /\ (result.kind = "Ok") <=>
               (t # None /\ t[1].kind = "Ident" /\ t[1].text = call.arg)
        /\ result.kind = "Ok" => result.value = Unit /\ result.pos = call.start + 1
        /\ (t # None /\ t[1].kind = "Ident" /\ t[1].text # call.arg) =>
               /\ Contains(result.err.message, call.arg)
               /\ Contains(result.err.message, t[1].text)
        /\ (t = None \/ t[1].kind # "Ident") =>
               result.err.message = <<"expected identifier">>

C8_Witness ==
    /\ call.fn = "ident_match"
    /\ call.arg = "a"
    /\ IsIdentAt(call.start)
    /\ input[call.start + 1].text = "A"
    /\ result.kind = "Err"

\* C9: on success unit returns the start index, each primitive start + 1, and
\* each composite grammar an index above the start and at most len(tokens).
C9_NextIndex ==
    result.kind = "Ok" =>
        /\ call.fn = "unit" => result.pos = call.start
        /\ call.fn \in Primitives => result.pos = call.start + 1
        /\ call.fn \in Composites =>
               result.pos > call.start /\ result.pos <= Len(input)

C9_Witness ==
    /\ call.fn = "dotted_ident"
    /\ result.kind = "Ok"
    /\ result.pos = call.start + 3

\* the n tokens from start read identifier (('.' identifier) | (':' ':' identifier))*
RECURSIVE DottedRun(_, _)
DottedRun(start, n) ==
    IF n < 1 THEN FALSE
    ELSE IF n = 1 THEN IsIdentAt(start)
    ELSE /\ IsIdentAt(start + n - 1)
         /\ \/ IsPunctAt(start + n - 2, ".") /\ DottedRun(start, n - 2)
            \/ /\ IsPunctAt(start + n - 2, ":")
               /\ IsPunctAt(start + n - 3, ":")
               /\ DottedRun(start, n - 3)

DottedRuns(start) == {n \in 1..(Len(input) - start) : DottedRun(start, n)}

\* C4: dotted_ident consumes the longest prefix of the form
\* identifier (('.' identifier) | (':' ':' identifier))*, either separator at
\* each step; one consumed token is returned unchanged, more are returned as a
\* brace-delimited Group of exactly the consumed tokens in input order.
C4_DottedIdent ==
    call.fn = "dotted_ident" =>
        LET runs == DottedRuns(call.start) IN
        IF runs = {} THEN result.kind = "Err"
        ELSE LET n == Maximum(runs) IN
             /\ result.kind = "Ok"
             /\ result.pos = call.start + n
             /\ IF n = 1 THEN result.value = input[call.start + 1]
                ELSE /\ result.value.kind = "Group"
                     /\ result.value.text = "Brace"
                     /\ result.value.inner = SubSeq(input, call.start + 1, call.start + n)

C4_Witness ==
    /\ call.fn = "dotted_ident"
    /\ result.kind = "Ok"
    /\ result.value.kind = "Group"
    /\ \E i, j \in 1..Len(result.value.inner) :
           /\ i < j
           /\ result.value.inner[i].text = "."
           /\ result.value.inner[j].text = ":"

IsTypeToken(t) ==
    t.kind = "Ident" \/ (t.kind = "Punct" /\ t.text \in {":", "<", ">", "&", "'"})

\* the length of the maximal run of type tokens from start
TypeRun(start) ==
    IF start >= Len(input) THEN 0
    ELSE Maximum({n \in 0..(Len(input) - start) :
                     \A i \in 1..n : IsTypeToken(input[start + i])})

\* C5: type_spec consumes exactly the maximal run of Identifiers and of the
\* punctuation characters : < > & and the single quote from the start index
\* and returns those tokens, the same in content and order; it fails when the
\* run is empty.
C5_TypeSpecRoundTrip ==
    call.fn = "type_spec" =>
        LET n == TypeRun(call.start) IN
        IF n = 0 THEN result.kind = "Err"
        ELSE /\ result.kind = "Ok"
             /\ result.pos = call.start + n
             /\ result.value = SubSeq(input, call.start + 1, call.start + n)

C5_Witness ==
    /\ call.fn = "type_spec"
    /\ result.kind = "Ok"
    /\ Len(result.value) = 4
    /\ result.value[1].kind = "Ident"
    /\ result.value[2].text = "<"
    /\ result.value[3].kind = "Ident"
    /\ result.value[4].text = ">"

\* a wrapping error: Expect, or Custom with an inner error
Wrapping(e) == e.type = "Expect" \/ (e.type = "Custom" /\ e.inner # None)

\* every position of the cause chain is an index of the slice
RECURSIVE InBounds(_)
InBounds(e) ==
    /\ e.type = "Incomplete" \/ e.position < Len(input)
    /\ e.inner = None \/ InBounds(e.inner[1])

\* the spans and the message of the translation of one error
SpansOf(e) == IF e.type = "Incomplete" THEN <<>> ELSE <<input[e.position + 1].span>>

MessageOf(e) ==
    IF e.type = "Incomplete" THEN <<"unexpected end of macro!">> ELSE e.message

\* C6: a wrapping error with message m at position p translates to a
\* diagnostic at tokens[p]'s span with message m and exactly one child, which
\* carries the spans and the message of the translated immediate inner error
\* whatever the depth of the chain; Custom with no inner error gives no child.
C6_WrappingError ==
    (diag # NoDiag /\ InBounds(result.err)) =>
        LET e == result.err IN
        /\ Wrapping(e) =>
               /\ diag.kind = "Diag"
               /\ diag.spans = SpansOf(e)
               /\ diag.message = e.message
               /\ Len(diag.children) = 1
               /\ diag.children[1].spans = SpansOf(e.inner[1])
               /\ diag.children[1].message = MessageOf(e.inner[1])
        /\ (e.type = "Custom" /\ e.inner = None) =>
               /\ diag.kind = "Diag"
               /\ diag.spans = SpansOf(e)
               /\ diag.message = e.message
               /\ diag.children = <<>>

C6_Witness ==
    /\ diag.kind = "Diag"
    /\ result.err.type = "Expect"
    /\ Wrapping(result.err.inner[1])
    /\ result.err.position # result.err.inner[1].position
    /\ result.err.message # result.err.inner[1].message
    /\ Len(diag.children) = 1

\* C7, as the code has it: an Incomplete error translates, for any slice, to
\* an Error diagnostic with no span, no child and the message
\* "unexpected end of macro!".
C7_Incomplete ==
    (diag # NoDiag /\ result.err.type = "Incomplete") =>
        diag = MkDiag("Error", <<"unexpected end of macro!">>, <<>>, <<>>)

C7_Witness ==
    /\ Len(input) > 0
    /\ result.err.type = "Incomplete"
    /\ diag.kind = "Diag"

\* C7 as claimed: the message is "unexpected end of input."
C7_AsClaimed ==
    (diag # NoDiag /\ result.err.type = "Incomplete") =>
        diag = MkDiag("Error", <<"unexpected end of input.">>, <<>>, <<>>)

\* the n tokens from start read identifier ('-' identifier)*
HtmlRun(start, n) ==
    /\ n % 2 = 1
    /\ \A j \in 0..(n - 1) :
           IF j % 2 = 0 THEN IsIdentAt(start + j) ELSE IsPunctAt(start + j, "-")

HtmlRuns(start) == {n \in 1..(Len(input) - start) : HtmlRun(start, n)}

\* the identifiers of a run, joined by "_"
RECURSIVE JoinedName(_, _)
JoinedName(start, n) ==
    IF n = 1 THEN input[start + 1].text
    ELSE JoinedName(start, n - 2) \o "_" \o input[start + n].text

\* what C3 says of a call of html_ident that returned
HtmlIdentValue ==
    LET n == Maximum(HtmlRuns(call.start)) IN
    /\ result.pos = call.start + n
    /\ (result.pos - call.start) % 2 = 1
    /\ result.value.kind = "Ident"
    /\ result.value.text = JoinedName(call.start, n)

\* C3: html_ident, started on an identifier, consumes the longest prefix
\* identifier ('-' identifier)*, an odd count of tokens, and returns one
\* Identifier named by the consumed identifiers joined with '_'; it fails when
\* the token at the start index is no identifier.
C3_HtmlIdent ==
    call.fn = "html_ident" =>
        IF IsIdentAt(call.start)
        THEN result.kind = "Ok" /\ HtmlIdentValue
        ELSE result.kind = "Err"

\* the span from the first consumed token's start to the last one's end
JoinedSpan ==
    MkSpan(input[call.start + 1].span.file,
           input[call.start + 1].span.lo,
           input[result.pos].span.hi)

\* C10: whenever html_ident succeeds the synthesized span runs from the first
\* consumed token's start to the last one's end, and the fold always ends
\* holding a span (the unwrap never fails), also when a join yields no span.
C10_JoinedSpan ==
    (call.fn = "html_ident" /\ IsIdentAt(call.start)) =>
        /\ result.kind # "Panic"
        /\ result.kind = "Ok" => result.value.span = JoinedSpan

\* every pairwise join of the consumed tokens yields a span
OneFileRun ==
    \A i \in 1..Len(input) :
        (i > call.start /\ i <= call.start + Maximum(HtmlRuns(call.start))) =>
            input[i].span.file = input[call.start + 1].span.file

\* What holds of html_ident: whenever it returns, the consumed count and the
\* name are as C3 says; and with the consumed tokens of one file it returns,
\* with the span C10 says.
HtmlIdentWhenItReturns ==
    (call.fn = "html_ident" /\ IsIdentAt(call.start)) =>
        /\ result.kind \in {"Ok", "Panic"}
        /\ result.kind = "Ok" => HtmlIdentValue
        /\ OneFileRun => result.kind = "Ok" /\ result.value.span = JoinedSpan

\* What holds of parse_error after a parser of this file failed: it panics
\* exactly when the parser was started at or past the end of the slice.
TranslatesBeforeTheEnd ==
    (call.fn \in Primitives \cup Composites /\ diag # NoDiag) =>
        /\ result.err.position = call.start
        /\ (diag.kind = "Diag") <=> (call.start < Len(input))

====
